---- MODULE Spec2Model ----
(***************************************************************************)
(* Kronecker-structured Laplace inference (src/kronecker.py): the          *)
(* Kronecker algebra, the conjugate-gradient solver, the backtracking line *)
(* search and the Newton loop of KroneckerSolver; and the birth-death      *)
(* chain of ThinnedEventsSampler (src/thinnedEvents_eager.py).             *)
(***************************************************************************)
EXTENDS Integers, Sequences, FiniteSets, TLC

VARIABLES
    \* ---- kron_mvp / kron_list applied to drawn inputs
    kr_pc, kr_Ks, kr_v, kr_out, kr_dense,
    \* ---- KroneckerSolver: the constructor's arguments
    X, y, mu, kernel, likelihood, k_diag, mask, tau, max_it,
    \* ---- KroneckerSolver: the instance
    fields,        \* the attributes assigned on the instance so far
    Ks, alpha, f, W, grads,
    opt_cg_prod,   \* self.opt.cg_prod: "None" or "cg_prod"
    \* ---- run(): the loop variables of the Newton loop
    pc, it, prev, delta,
    \* ---- step(): locals
    psi, b, delta_alpha, z, ls,
    \* ---- CGOptimizer.cg: loop variables
    cg_p, cg_count, cg_x, cg_r, cg_z, cg_max_it,
    \* ---- line_search: loop variables
    obj_search, min_obj, step_size, t, opt_step,
    \* ---- history (not program state)
    alpha0,        \* alpha when the current step began
    alpha_upd,     \* alpha as line 127 left it, before the NaN floor
    accepted,      \* whether the last completed step took its update
    ls_hist,       \* the candidates the current line search evaluated
    cg_div0,       \* cg_body divided by a zero denominator in this solve
    \* ---- ThinnedEventsSampler: the attributes and run()'s loop variables
    x_K, y_K, x_M, y_M,
    x_K_ndim,      \* the number of axes of x_K
    loop_vars,     \* what run's tf.while_loop carries from pass to pass
    th_pc, th_i, th_it,
    th_calls,      \* the calls of run and update made so far
    \* ---- history (not program state)
    th_prev,       \* the loop's <<x_M, y_M>> before its last pass
    th_op          \* the last step: its kind, the row it drew, its acceptance

kronVars == <<kr_pc, kr_Ks, kr_v, kr_out, kr_dense>>
argVars == <<X, y, mu, kernel, likelihood, k_diag, mask, tau, max_it>>
objVars == <<fields, Ks, alpha, f, W, grads, opt_cg_prod>>
runVars == <<pc, it, prev, delta>>
stepVars == <<psi, b, delta_alpha, z, ls>>
cgVars == <<cg_p, cg_count, cg_x, cg_r, cg_z, cg_max_it>>
lsVars == <<obj_search, min_obj, step_size, t, opt_step>>
histVars == <<alpha0, alpha_upd, accepted, ls_hist, cg_div0>>
solverVars == <<argVars, objVars, runVars, stepVars, cgVars, lsVars, histVars>>
thinVars == <<x_K, y_K, x_M, y_M, x_K_ndim, loop_vars, th_pc, th_i, th_it, th_calls, th_prev, th_op>>
vars == <<kronVars, solverVars, thinVars>>

(***************************************************************************)
(* float32 tensors' entries: IEEE 754 binary32 with round to nearest, ties *)
(* to even.  A finite non-zero number is <<m, x, 0>>: the value m * 2^x,   *)
(* m odd, |m| < 2^24, x >= -149 and |m * 2^x| < 2^128.  <<0,0,0>> is +0.0, *)
(* <<0,0,2>> is -0.0, <<0,0,1>> NaN, <<1,0,1>> +inf, <<-1,0,1>> -inf.      *)
(* Results beyond the largest finite value become inf, results below the   *)
(* smallest normal value are rounded on the subnormal grid.  No integer    *)
(* the operators form reaches 2^31.                                        *)
(***************************************************************************)
MantBits == 24
MaxTop == 128
MinExp == -149

Abs(i) == IF i < 0 THEN -i ELSE i
Sgn(i) == IF i > 0 THEN 1 ELSE IF i < 0 THEN -1 ELSE 0
Min(i, j) == IF i <= j THEN i ELSE j
Max(i, j) == IF i >= j THEN i ELSE j

RECURSIVE BitLen(_)
BitLen(n) == IF n = 0 THEN 0 ELSE 1 + BitLen(n \div 2)

NaN == <<0, 0, 1>>
Inf == <<1, 0, 1>>
Zero == <<0, 0, 0>>
NegZero == <<0, 0, 2>>
One == <<1, 0, 0>>

IsNaN(a) == a[3] = 1 /\ a[1] = 0
IsInf(a) == a[3] = 1 /\ a[1] # 0
IsFinite(a) == a[3] # 1
IsZero(a) == a[3] # 1 /\ a[1] = 0

\* the sign bit of a number that is not NaN
SignOf(a) == IF a[1] < 0 \/ a = NegZero THEN -1 ELSE 1
SignedZero(sg) == IF sg < 0 THEN NegZero ELSE Zero
SignedInf(sg) == <<sg, 0, 1>>

\* the rounded magnitude q * 2^x with its sign: zero keeps the sign, a
\* value of 2^128 or more is inf
Finish(sg, q, x) ==
    LET \* the canonical form of n * 2^x, n # 0
        RECURSIVE Strip(_, _)
        Strip(n, xx) == IF n % 2 = 0 THEN Strip(n \div 2, xx + 1) ELSE <<n, xx, 0>>
    IN  IF q = 0 THEN SignedZero(sg)
        ELSE IF x + BitLen(q) > MaxTop THEN SignedInf(sg)
        ELSE Strip(sg * q, x)

\* sg * n * 2^x, n > 0, rounded to float32: at most MantBits significant
\* bits and no bit below 2^MinExp
RoundSigned(sg, n, x) ==
    LET \* a / d to the nearest integer, ties to even (a >= 0, d a power of two >= 2)
        NearestEven(a, d) ==
            IF (a % d) > (d \div 2) \/ ((a % d) = (d \div 2) /\ (a \div d) % 2 = 1)
            THEN (a \div d) + 1
            ELSE a \div d
        \* n * 2^x, n > 0, with the s lowest bits of n rounded away
        RoundOff(sgg, nn, xx, s) ==
            IF s <= 0 THEN Finish(sgg, nn, xx)
            ELSE IF s > BitLen(nn) THEN SignedZero(sgg)
            ELSE Finish(sgg, NearestEven(nn, 2 ^ s), xx + s)
    IN  RoundOff(sg, n, x, Max(BitLen(n) - MantBits, MinExp - x))

\* the integer n times 2^x, rounded to float32
Round(n, x) == IF n = 0 THEN Zero ELSE RoundSigned(Sgn(n), Abs(n), x)

Num(i) == Round(i, 0)

\* the position above the leading bit of a finite non-zero number
Top(a) == a[2] + BitLen(Abs(a[1]))

FNeg(a) ==
    IF IsNaN(a) THEN NaN
    ELSE IF a = Zero THEN NegZero
    ELSE IF a = NegZero THEN Zero
    ELSE <<-a[1], a[2], a[3]>>

\* tf.multiply / scalar *: inf * 0 = NaN, the sign of a zero product is the
\* product of the signs
FMul(a, c) ==
    LET \* the product T * 2^24 + L of two significands, T of at least 4 bits, cut
        \* to 27 bits and a last bit that tells whether anything was cut off
        MulShift(sg, T, L, x, k) ==
            RoundSigned(sg, 2 * (T * (2 ^ (24 - k)) + (L \div (2 ^ k)))
                            + (IF L % (2 ^ k) = 0 THEN 0 ELSE 1), x + k - 1)
        \* the product of two significands from its 12-bit limbs:
        \* hi * 2^24 + mid * 2^12 + lo
        MulLimbs(sg, hi, mid, lo, x) ==
            MulShift(sg, hi + ((mid + (lo \div 4096)) \div 4096),
                     ((mid + (lo \div 4096)) % 4096) * 4096 + (lo % 4096), x,
                     BitLen(hi + ((mid + (lo \div 4096)) \div 4096)) - 3)
        \* sg * p * q * 2^x for significands p, q > 0
        MulFinite(sg, p, q, x) ==
            IF BitLen(p) + BitLen(q) <= 30 THEN RoundSigned(sg, p * q, x)
            ELSE MulLimbs(sg, (p \div 4096) * (q \div 4096),
                          (p \div 4096) * (q % 4096) + (p % 4096) * (q \div 4096),
                          (p % 4096) * (q % 4096), x)
    IN  IF IsNaN(a) \/ IsNaN(c) THEN NaN
        ELSE IF IsInf(a) \/ IsInf(c)
             THEN (IF IsZero(a) \/ IsZero(c) THEN NaN ELSE SignedInf(SignOf(a) * SignOf(c)))
        ELSE IF IsZero(a) \/ IsZero(c) THEN SignedZero(SignOf(a) * SignOf(c))
        ELSE MulFinite(SignOf(a) * SignOf(c), Abs(a[1]), Abs(c[1]), a[2] + c[2])

\* tensor + : inf + (-inf) = NaN, x + (-x) = +0.0, -0.0 + -0.0 = -0.0
FAdd(a, c) ==
    LET \* a + c for c far below a: A is |a| on 28 bits (its last place 2^x), C the
        \* part of |c| at or above 2^x, st tells whether |c| has bits below 2^x
        AddFarWith(sg, A, C, st, same, x) ==
            RoundSigned(sg, 2 * (IF same THEN A + C ELSE A - C - st) + st, x - 1)
        AddFar(aa, cc, r) ==
            AddFarWith(SignOf(aa), Abs(aa[1]) * (2 ^ (28 - BitLen(Abs(aa[1])))),
                       IF r > 24 THEN 0 ELSE Abs(cc[1]) \div (2 ^ r),
                       IF r > 24 THEN 1 ELSE (IF Abs(cc[1]) % (2 ^ r) = 0 THEN 0 ELSE 1),
                       SignOf(aa) = SignOf(cc), Top(aa) - 28)
        \* a + c for finite non-zero a, c with Top(a) >= Top(c): exact in one
        \* integer when both fit at the lower exponent
        AddOrdered(aa, cc) ==
            IF Top(aa) - Min(aa[2], cc[2]) <= 29
            THEN Round(aa[1] * (2 ^ (aa[2] - Min(aa[2], cc[2]))) + cc[1] * (2 ^ (cc[2] - Min(aa[2], cc[2]))),
                       Min(aa[2], cc[2]))
            ELSE AddFar(aa, cc, Top(aa) - 28 - cc[2])
    IN  IF IsNaN(a) \/ IsNaN(c) THEN NaN
        ELSE IF IsInf(a) THEN (IF IsInf(c) /\ c # a THEN NaN ELSE a)
        ELSE IF IsInf(c) THEN c
        ELSE IF IsZero(a) /\ IsZero(c) THEN (IF a = NegZero /\ c = NegZero THEN NegZero ELSE Zero)
        ELSE IF IsZero(a) THEN c
        ELSE IF IsZero(c) THEN a
        ELSE IF Top(a) >= Top(c) THEN AddOrdered(a, c)
        ELSE AddOrdered(c, a)

FSub(a, c) == FAdd(a, FNeg(c))

\* the literal 0.5
Half == <<1, -1, 0>>

\* tensor / : x/0 = +-inf, 0/0 = NaN, x/inf = +-0, inf/inf = NaN
FDiv(a, c) ==
    LET \* long division: k more bits of the quotient of r / D (r < 2 D)
        RECURSIVE DivLoop(_, _, _, _)
        DivLoop(r, D, q, k) ==
            IF k = 0 THEN <<q, r>>
            ELSE IF r >= D THEN DivLoop(2 * (r - D), D, 2 * q + 1, k - 1)
            ELSE DivLoop(2 * r, D, 2 * q, k - 1)
        \* the quotient on 27 bits and a last bit that tells whether a remainder was left
        DivRounded(sg, qr, x) == RoundSigned(sg, 2 * qr[1] + (IF qr[2] = 0 THEN 0 ELSE 1), x - 27)
        \* sg * (n / d) * 2^x for significands n, d > 0, both brought to 24 bits
        DivFinite(sg, n, d, x) ==
            DivRounded(sg, DivLoop(n * (2 ^ (24 - BitLen(n))), d * (2 ^ (24 - BitLen(d))), 0, 27),
                       x + BitLen(n) - BitLen(d))
    IN  IF IsNaN(a) \/ IsNaN(c) THEN NaN
        ELSE IF IsInf(a) THEN (IF IsInf(c) THEN NaN ELSE SignedInf(SignOf(a) * SignOf(c)))
        ELSE IF IsInf(c) THEN SignedZero(SignOf(a) * SignOf(c))
        ELSE IF IsZero(c) THEN (IF IsZero(a) THEN NaN ELSE SignedInf(SignOf(a) * SignOf(c)))
        ELSE IF IsZero(a) THEN SignedZero(SignOf(a) * SignOf(c))
        ELSE DivFinite(SignOf(a) * SignOf(c), Abs(a[1]), Abs(c[1]), a[2] - c[2])

\* tf.sqrt: NaN below zero, sqrt(-0.0) = -0.0
FSqrt(a) ==
    LET \* the square root of M * 4^14 digit by digit: M is read two bits at a time
        \* from pair 12 down, then 14 pairs of zeros; k pairs are left
        RECURSIVE SqrtLoop(_, _, _, _)
        SqrtLoop(M, rem, root, k) ==
            IF k = 0 THEN <<root, rem>>
            ELSE IF 4 * rem + (IF k >= 15 THEN (M \div (4 ^ (k - 15))) % 4 ELSE 0) >= 4 * root + 1
                 THEN SqrtLoop(M, 4 * rem + (IF k >= 15 THEN (M \div (4 ^ (k - 15))) % 4 ELSE 0)
                                  - (4 * root + 1), 2 * root + 1, k - 1)
            ELSE SqrtLoop(M, 4 * rem + (IF k >= 15 THEN (M \div (4 ^ (k - 15))) % 4 ELSE 0),
                          2 * root, k - 1)
        \* the root on 27 bits and a last bit that tells whether a remainder was left
        SqrtRounded(rr, h) == Round(2 * rr[1] + (IF rr[2] = 0 THEN 0 ELSE 1), h - 15)
        \* sqrt(m * 2^x) with m shifted by j so that x - j is even and m * 2^j has
        \* 25 or 26 bits
        SqrtScaled(m, x, j) == SqrtRounded(SqrtLoop(m * (2 ^ j), 0, 0, 27), (x - j) \div 2)
        SqrtFinite(m, x, j0) == SqrtScaled(m, x, IF (x - j0) % 2 = 0 THEN j0 ELSE j0 + 1)
    IN  IF IsNaN(a) \/ a[1] < 0 THEN NaN
        ELSE IF IsInf(a) THEN Inf
        ELSE IF IsZero(a) THEN a
        ELSE SqrtFinite(a[1], a[2], 25 - BitLen(a[1]))

\* tf.greater / tf.less: False when either side is NaN
FGreater(a, c) ==
    /\ ~IsNaN(a)
    /\ ~IsNaN(c)
    /\ a # c
    /\ FSub(a, c)[1] > 0
FLess(a, c) == FGreater(c, a)

(***************************************************************************)
(* Python floats: IEEE 754 binary64 with round to nearest, ties to even.   *)
(* The significand does not fit one integer of the model and is held as    *)
(* its digits in base 4096, lowest first, without leading zero digits.  A  *)
(* finite non-zero float is <<sg, d, x, 0>>: the value sg * d * 2^x, d odd *)
(* and below 2^53, x >= -1074, d * 2^x < 2^1024.  <<sg, <<>>, 0, 0>> is    *)
(* the zero of sign sg, <<sg, <<>>, 0, 1>> the infinity of sign sg and     *)
(* <<1, <<>>, 0, 2>> NaN.                                                  *)
(***************************************************************************)
PyFormat == [mant |-> 53, top |-> 1024, min |-> -1074, digit |-> 12, base |-> 4096]

RECURSIVE NatTrim(_)
NatTrim(d) ==
    IF d = <<>> THEN <<>>
    ELSE IF d[Len(d)] = 0 THEN NatTrim(SubSeq(d, 1, Len(d) - 1))
    ELSE d

RECURSIVE NatInt(_)
NatInt(d) == IF d = <<>> THEN 0 ELSE d[1] + PyFormat.base * NatInt(Tail(d))

NatBitLen(d) ==
    IF d = <<>> THEN 0 ELSE PyFormat.digit * (Len(d) - 1) + BitLen(d[Len(d)])

\* d \div 2^s
NatShr(d, s) ==
    NatTrim([i \in 1..(Len(d) - (s \div PyFormat.digit)) |->
        (d[i + (s \div PyFormat.digit)] \div (2 ^ (s % PyFormat.digit)))
        + (IF i + (s \div PyFormat.digit) < Len(d)
           THEN (d[i + (s \div PyFormat.digit) + 1] % (2 ^ (s % PyFormat.digit)))
                * (2 ^ (PyFormat.digit - (s % PyFormat.digit)))
           ELSE 0)])

\* d % 2^s = 0
NatLowZero(d, s) ==
    /\ \A i \in 1..Min(Len(d), s \div PyFormat.digit) : d[i] = 0
    /\ (s \div PyFormat.digit) < Len(d) =>
           d[(s \div PyFormat.digit) + 1] % (2 ^ (s % PyFormat.digit)) = 0

\* a * c, digit by digit with carries
NatMul(a, c) ==
    LET RECURSIVE Column(_, _)
        Column(k, i) ==
            IF i > Len(a) \/ i > k THEN 0
            ELSE (IF k + 1 - i <= Len(c) THEN a[i] * c[k + 1 - i] ELSE 0) + Column(k, i + 1)
        RECURSIVE Carried(_, _)
        Carried(k, carry) ==
            IF k > Len(a) + Len(c) THEN <<>>
            ELSE <<(Column(k, 1) + carry) % PyFormat.base>>
                 \o Carried(k + 1, (Column(k, 1) + carry) \div PyFormat.base)
    IN  NatTrim(Carried(1, 0))

\* sg * d * 2^x, d # <<>>, rounded to a Python float: at most 53
\* significant bits and no bit below 2^-1074; 2^1024 or more is inf
PyRound(sg, d, x) ==
    LET RECURSIVE Inc(_)
        Inc(q) == IF q = <<>> THEN <<1>>
                  ELSE IF q[1] + 1 < PyFormat.base THEN <<q[1] + 1>> \o Tail(q)
                  ELSE <<0>> \o Inc(Tail(q))
        Bit(q, k) == IF NatShr(q, k) = <<>> THEN 0 ELSE NatShr(q, k)[1] % 2
        \* d with its s lowest bits rounded away, ties to even
        Cut(s) == IF Bit(d, s - 1) = 1 /\ (~NatLowZero(d, s - 1) \/ Bit(d, s) = 1)
                  THEN Inc(NatShr(d, s))
                  ELSE NatShr(d, s)
        RECURSIVE Low(_, _)
        Low(q, k) == IF Bit(q, k) = 1 THEN k ELSE Low(q, k + 1)
        Done(q, xq) ==
            IF q = <<>> THEN <<sg, <<>>, 0, 0>>
            ELSE IF xq + NatBitLen(q) > PyFormat.top THEN <<sg, <<>>, 0, 1>>
            ELSE <<sg, NatShr(q, Low(q, 0)), xq + Low(q, 0), 0>>
        Off(s) == IF s <= 0 THEN Done(d, x)
                  ELSE IF s > NatBitLen(d) THEN <<sg, <<>>, 0, 0>>
                  ELSE Done(Cut(s), x + s)
    IN  Off(Max(NatBitLen(d) - PyFormat.mant, PyFormat.min - x))

\* the Python int n as a float, and the float n * 2^x
PyNum(n, x) ==
    LET \* the digits of the integer n >= 0 and the integer of at most 30 bits that
        \* digits spell
        RECURSIVE NatOf(_)
        NatOf(nn) == IF nn = 0 THEN <<>> ELSE <<nn % PyFormat.base>> \o NatOf(nn \div PyFormat.base)
    IN  IF n = 0 THEN <<1, <<>>, 0, 0>> ELSE PyRound(Sgn(n), NatOf(Abs(n)), x)

\* float * float: inf * 0 = nan, the sign of a zero product is the product
\* of the signs
PyMul(a, c) ==
    IF a[4] = 2 \/ c[4] = 2 THEN <<1, <<>>, 0, 2>>
    ELSE IF a[4] = 1 \/ c[4] = 1
         THEN (IF (a[4] = 0 /\ a[2] = <<>>) \/ (c[4] = 0 /\ c[2] = <<>>)
               THEN <<1, <<>>, 0, 2>>
               ELSE <<a[1] * c[1], <<>>, 0, 1>>)
    ELSE IF a[2] = <<>> \/ c[2] = <<>> THEN <<a[1] * c[1], <<>>, 0, 0>>
    ELSE PyRound(a[1] * c[1], NatMul(a[2], c[2]), a[3] + c[3])

\* a Python float made a float32 tensor: the significand cut to 26 bits and
\* a last bit that tells whether anything was cut off, then rounded
convert_to_tensor(a) ==
    IF a[4] = 2 THEN NaN
    ELSE IF a[4] = 1 THEN SignedInf(a[1])
    ELSE IF a[2] = <<>> THEN SignedZero(a[1])
    ELSE IF NatBitLen(a[2]) <= 26 THEN RoundSigned(a[1], NatInt(a[2]), a[3])
    ELSE RoundSigned(a[1],
                     2 * NatInt(NatShr(a[2], NatBitLen(a[2]) - 26))
                     + (IF NatLowZero(a[2], NatBitLen(a[2]) - 26) THEN 0 ELSE 1),
                     a[3] + NatBitLen(a[2]) - 27)

(***************************************************************************)
(* Vectors are sequences of numbers, matrices sequences of rows.           *)
(***************************************************************************)
Rows(M) == Len(M)
Cols(M) == IF Len(M) = 0 THEN 0 ELSE Len(M[1])

\* a tensor holds its entries: eager execution computes each one once
Tensor(entries) == entries \o <<>>

VAdd(u, v) == Tensor([i \in 1..Len(u) |-> FAdd(u[i], v[i])])
VSub(u, v) == Tensor([i \in 1..Len(u) |-> FSub(u[i], v[i])])
VMul(u, v) == Tensor([i \in 1..Len(u) |-> FMul(u[i], v[i])])
VScale(c, v) == Tensor([i \in 1..Len(v) |-> FMul(c, v[i])])
VNeg(v) == Tensor([i \in 1..Len(v) |-> FNeg(v[i])])
VSqrt(v) == Tensor([i \in 1..Len(v) |-> FSqrt(v[i])])

\* tf.reduce_sum, accumulated in index order
RECURSIVE SumUpTo(_, _)
SumUpTo(v, k) == IF k = 0 THEN Zero ELSE FAdd(SumUpTo(v, k - 1), v[k])
reduce_sum(v) == SumUpTo(v, Len(v))

Transpose(M) == Tensor([j \in 1..Cols(M) |-> Tensor([i \in 1..Rows(M) |-> M[i][j]])])

Flatten(M) ==
    LET c == Cols(M)
    IN  Tensor([k \in 1..(Rows(M) * c) |-> M[((k - 1) \div c) + 1][((k - 1) % c) + 1]])

\* tf.reshape raises InvalidArgumentError unless the number of entries is r * c
ReshapeOk(n, r, c) == n = r * c

\* tf.reshape of the entries flat to r x c, row-major (defined when ReshapeOk)
Reshape(flat, r, c) ==
    Tensor([i \in 1..r |-> Tensor([j \in 1..c |-> flat[(i - 1) * c + j]])])

\* tf.squeeze of a 1 x n tensor: the vector of its n entries, and for n = 1
\* the 0-d scalar itself
squeeze(flat) == IF Len(flat) = 1 THEN flat[1] ELSE flat

\* tf.matmul: defined when the inner dimensions agree
MatMulOk(A, B) == Cols(A) = Rows(B)
MatMul(A, B) ==
    Tensor([i \in 1..Rows(A) |->
        Tensor([j \in 1..Cols(B) |->
            reduce_sum([k \in 1..Cols(A) |-> FMul(A[i][k], B[k][j])])])])

MatVec(A, v) ==
    Tensor([i \in 1..Rows(A) |-> reduce_sum([k \in 1..Len(v) |-> FMul(A[i][k], v[k])])])

(***************************************************************************)
(* Kronecker algebra                                                       *)
(***************************************************************************)
\* kron(A, B): row blocks i of A, in each the column blocks A[i, j] * B
kron(A, B) ==
    LET rb == Rows(B)
        cb == Cols(B)
    IN  Tensor([r \in 1..(Rows(A) * rb) |->
            Tensor([c \in 1..(Cols(A) * cb) |->
                FMul(A[((r - 1) \div rb) + 1][((c - 1) \div cb) + 1],
                     B[((r - 1) % rb) + 1][((c - 1) % cb) + 1])])])

RECURSIVE KronFold(_, _, _)
KronFold(out, matrices, i) ==
    IF i > Len(matrices) THEN out
    ELSE KronFold(kron(out, matrices[i]), matrices, i + 1)

\* kron_list: kron of the first two factors, then folded over the rest
kron_list(matrices) == KronFold(kron(matrices[1], matrices[2]), matrices, 3)

\* an exception raised inside kron_mvp
Raised(err) == [ok |-> FALSE, err |-> err, rank |-> 1, val |-> <<>>]

\* The loop of kron_mvp over reversed(Ks), factor i down to 1.  tf.matmul
\* raises InvalidArgumentError when the shapes do not conform, tf.reshape
\* when the product does not have V_rows * V_cols entries.
RECURSIVE KronMvpLoop(_, _, _, _, _)
KronMvpLoop(Kfac, i, mvp, V_rows, V_cols) ==
    IF i = 0 THEN [ok |-> TRUE, err |-> "no", rank |-> 2, val |-> mvp]
    ELSE IF ~MatMulOk(Kfac[i], mvp) THEN Raised("InvalidArgumentError")
    ELSE IF ~ReshapeOk(Rows(Kfac[i]) * Cols(mvp), V_rows, V_cols)
         THEN Raised("InvalidArgumentError")
    ELSE KronMvpLoop(Kfac, i - 1,
                     Reshape(Flatten(Transpose(MatMul(Kfac[i], mvp))), V_rows, V_cols),
                     V_rows, V_cols)

\* kron_mvp(Ks, v) on a vector v: [ok, err, rank, val]; val is the returned
\* tensor when nothing raised.  V_cols = v.shape[0] / V_rows is an integer
\* division (line 547).
kron_mvp(Kfac, v) ==
    LET \* line 554: the transpose of the loop's result, reshaped to [1, -1] and
        \* squeezed: a tensor of rank 1, or of rank 0 (val the number) for one entry
        KronMvpOut(res) ==
            IF res.ok
            THEN [ok |-> TRUE, err |-> "no",
                  rank |-> IF Rows(res.val) * Cols(res.val) = 1 THEN 0 ELSE 1,
                  val |-> squeeze(Flatten(Transpose(res.val)))]
            ELSE res
    IN  IF ~ReshapeOk(Len(v), Rows(Kfac[1]), Len(v) \div Rows(Kfac[1]))
        THEN Raised("InvalidArgumentError")
        ELSE KronMvpOut(KronMvpLoop(Kfac, Len(Kfac),
                                    Transpose(Reshape(v, Rows(Kfac[1]), Len(v) \div Rows(Kfac[1]))),
                                    Rows(Kfac[1]), Len(v) \div Rows(Kfac[1])))

\* kron_mvp(Ks, tf.squeeze(v)), search_step lines 202-204: tf.squeeze makes
\* a vector of one entry a 0-d tensor, whose shape has no [0] (line 547)
kron_mvp_squeezed(Kfac, v) ==
    IF Len(v) = 1 THEN Raised("IndexError") ELSE kron_mvp(Kfac, v)

\* the result of kron_mvp as an operand of + or tf.multiply with a vector of
\* n entries: a 0-d tensor is broadcast
Broadcast(res, n) ==
    IF res.rank = 0 THEN Tensor([i \in 1..n |-> res.val]) ELSE res.val

\* Python's None
None == <<>>

\* the solver's variables while no solver exists
\* no ThinnedEventsSampler yet
NoStep == [kind |-> "none", c |-> 0, accept |-> FALSE]
NoLoop == [x_K |-> <<>>, y_K |-> <<>>, x_M |-> <<>>, y_M |-> <<>>]
ThinIdle ==
    /\ x_K = <<>> /\ y_K = <<>> /\ x_M = <<>> /\ y_M = <<>> /\ x_K_ndim = 2
    /\ loop_vars = NoLoop
    /\ th_pc = "idle" /\ th_i = 0 /\ th_it = 0 /\ th_calls = 0
    /\ th_prev = <<<<>>, <<>>>> /\ th_op = NoStep

SolverIdle ==
    /\ X = None /\ y = None /\ mu = None /\ kernel = None /\ likelihood = "None"
    /\ k_diag = None /\ mask = None /\ tau = PyNum(0, 0) /\ max_it = 0
    /\ fields = {} /\ Ks = None /\ alpha = None /\ f = None /\ W = None /\ grads = None
    /\ opt_cg_prod = "None"
    /\ pc = "idle" /\ it = 0 /\ prev = Zero /\ delta = Zero
    /\ psi = Zero /\ b = None /\ delta_alpha = None /\ z = None /\ ls = None
    /\ cg_p = None /\ cg_count = 0 /\ cg_x = None /\ cg_r = None /\ cg_z = None
    /\ cg_max_it = 0
    /\ obj_search = Zero /\ min_obj = Zero /\ t = 0
    /\ step_size = PyNum(0, 0) /\ opt_step = PyNum(0, 0)
    /\ alpha0 = None /\ alpha_upd = None /\ accepted = FALSE /\ ls_hist = <<>>
    /\ cg_div0 = FALSE

(***************************************************************************)
(* The collaborators of likelihoods.py and kernels.py, modelled from their *)
(* interface: a kernel is [var, cov], the covariance var of a point with   *)
(* itself and cov of two different points; a likelihood is quadratic in f, *)
(* log p(y|f) = y f + h f^2 / 2 elementwise, with second derivative h.     *)
(***************************************************************************)
RECURSIVE SortedSeq(_)
SortedSeq(S) ==
    IF S = {} THEN <<>>
    ELSE LET lo == CHOOSE a \in S : \A c \in S : a <= c
         IN  <<lo>> \o SortedSeq(S \ {lo})

\* np.unique(X[:, i]): the sorted distinct values of column i
Unique(Xv, i) == SortedSeq({Xv[r][i] : r \in 1..Len(Xv)})

\* kernel.eval(points)
kernel_eval(kern, pts) ==
    [i \in 1..Len(pts) |->
        [j \in 1..Len(pts) |-> IF pts[i] = pts[j] THEN Num(kern.var) ELSE Num(kern.cov)]]

\* the y value at which the crafted likelihoods change their curvature
CraftedAt == Num(-1)

\* d^2 log p / df^2 at one coordinate
Curvature(like, yi) ==
    IF like = "gauss" THEN -1
    ELSE IF like = "flat" THEN (IF yi = CraftedAt THEN 0 ELSE -1)
    ELSE (IF yi = CraftedAt THEN 1 ELSE -1)

\* likelihood.log_like(y, f), elementwise
log_like(like, yv, fv) ==
    Tensor([i \in 1..Len(fv) |->
        FAdd(FMul(yv[i], fv[i]),
             FMul(FMul(Num(Curvature(like, yv[i])), Half), FMul(fv[i], fv[i])))])

\* tfe.gradients_function(log_like, [1])
grad_func(like, yv, fv) ==
    Tensor([i \in 1..Len(fv) |-> FAdd(yv[i], FMul(Num(Curvature(like, yv[i])), fv[i]))])

\* tfe.gradients_function(grad_func, [1])
hess_func(like, yv, fv) == Tensor([i \in 1..Len(fv) |-> Num(Curvature(like, yv[i]))])

(***************************************************************************)
(* KroneckerSolver                                                         *)
(***************************************************************************)
\* construct_Ks: one factor per column of X, the kernel on its unique values
construct_Ks(kern, Xv) == [i \in 1..Len(Xv[1]) |-> kernel_eval(kern, Unique(Xv, i))]

zeros(n) == Tensor([i \in 1..n |-> Zero])

\* the statements of __init__ in order: the attribute each assigns and the
\* attributes of self it reads
CtorBody ==
    << [line |-> 28, writes |-> "kernel", reads |-> {}],
       [line |-> 29, writes |-> "mu", reads |-> {}],
       [line |-> 30, writes |-> "likelihood", reads |-> {}],
       [line |-> 31, writes |-> "Ks", reads |-> {"kernel", "X"}],
       [line |-> 32, writes |-> "K_eigs", reads |-> {"Ks"}],
       [line |-> 33, writes |-> "k_diag", reads |-> {}],
       [line |-> 34, writes |-> "mask", reads |-> {}],
       [line |-> 36, writes |-> "X", reads |-> {}],
       [line |-> 37, writes |-> "y", reads |-> {}],
       [line |-> 38, writes |-> "verbose", reads |-> {}],
       [line |-> 40, writes |-> "alpha", reads |-> {}],
       [line |-> 41, writes |-> "W", reads |-> {}],
       [line |-> 42, writes |-> "grads", reads |-> {}],
       [line |-> 44, writes |-> "opt", reads |-> {}],
       [line |-> 45, writes |-> "f", reads |-> {"mu"}],
       [line |-> 46, writes |-> "tau", reads |-> {}],
       [line |-> 47, writes |-> "grad_func", reads |-> {"likelihood"}],
       [line |-> 48, writes |-> "hess_func", reads |-> {"grad_func"}] >>

AllFields == {CtorBody[i].writes : i \in 1..Len(CtorBody)}

\* run the statements from the i-th on: reading an attribute that is not yet
\* assigned raises AttributeError and the rest is not executed
RECURSIVE RunCtor(_, _, _)
RunCtor(body, i, assigned) ==
    IF i > Len(body) THEN [raised |-> "no", line |-> 0, assigned |-> assigned]
    ELSE IF ~(body[i].reads \subseteq assigned)
         THEN [raised |-> "AttributeError", line |-> body[i].line, assigned |-> assigned]
    ELSE RunCtor(body, i + 1, assigned \cup {body[i].writes})

\* tf.boolean_mask(v, mask)
RECURSIVE MaskUpTo(_, _, _)
MaskUpTo(v, msk, k) ==
    IF k = 0 THEN <<>>
    ELSE IF msk[k] THEN Append(MaskUpTo(v, msk, k - 1), v[k])
    ELSE MaskUpTo(v, msk, k - 1)
boolean_mask(v, msk) == MaskUpTo(v, msk, Len(v))


\* psi = -sum(log_like(y, f)) + 0.5 * sum(alpha * (f - mu)), over the masked
\* entries when a mask is configured (step 88-97, search_step 209-219)
Psi(yv, fv, al, muv) ==
    FAdd(FNeg(reduce_sum(log_like(likelihood, yv, fv))),
         FMul(Half, reduce_sum(VMul(al, VSub(fv, muv)))))
Objective(al, fv) ==
    IF mask # None
    THEN Psi(boolean_mask(y, mask), boolean_mask(fv, mask),
             boolean_mask(al, mask), boolean_mask(mu, mask))
    ELSE Psi(y, fv, al, mu)

\* step, lines 83-86: f = kron_mvp(Ks, alpha) + mu, plus alpha * k_diag
f_step(al) ==
    IF k_diag # None
    THEN VAdd(VAdd(Broadcast(kron_mvp(Ks, al), Len(mu)), mu), VMul(al, k_diag))
    ELSE VAdd(Broadcast(kron_mvp(Ks, al), Len(mu)), mu)

\* search_step, lines 204-207
f_search(al) ==
    IF k_diag # None
    THEN VAdd(VAdd(kron_mvp_squeezed(Ks, al).val, mu), VMul(k_diag, al))
    ELSE VAdd(kron_mvp_squeezed(Ks, al).val, mu)

\* run, line 166: f = kron_mvp(Ks, alpha) + mu
f_run(al) == VAdd(Broadcast(kron_mvp(Ks, al), Len(mu)), mu)

\* tf.sqrt(self.W)
SqrtW == VSqrt(W)

\* cg_prod(p) = p + sqrt(W) * (K (sqrt(W) * p) [+ k_diag * (sqrt(W) * p)])
cg_prod(p) ==
    LET \* cg_prod, lines 175 and 179, Wp being sqrt(W) * p
        CgProdOf(pp, Wp) ==
            IF k_diag = None
            THEN VAdd(pp, VMul(SqrtW, Broadcast(kron_mvp(Ks, Wp), Len(pp))))
            ELSE VAdd(pp, VMul(SqrtW, VAdd(Broadcast(kron_mvp(Ks, Wp), Len(pp)), VMul(k_diag, Wp))))
    IN  CgProdOf(p, VMul(SqrtW, p))

(***************************************************************************)
(* CGOptimizer                                                             *)
(***************************************************************************)
\* 1e-5, the threshold of cg_converged (363) and of step and conv (127, 147)
Tol == FDiv(Num(1), Num(100000))

Recip(v) == Tensor([i \in 1..Len(v) |-> FDiv(One, v[i])])

\* cg_converged without its test of count
CgResidualOnly(count, r, maxit) == FGreater(reduce_sum(VMul(r, r)), Tol)

\* cg_converged: TRUE while the loop goes on
cg_converged(count, r, maxit) == FGreater(reduce_sum(VMul(r, r)), Tol) /\ count < maxit

\* cg_body, lines 393-406, on the x and r of lines 390-391
CgBodyEnd(p, count, precondition, zz, norm_k, x1, r1, z1, div0) ==
    [p |-> IF precondition # None
           THEN VAdd(z1, VScale(FDiv(reduce_sum(VMul(z1, r1)), norm_k), p))
           ELSE VAdd(r1, VScale(FDiv(reduce_sum(VMul(r1, r1)), norm_k), p)),
     count |-> count + 1, x |-> x1, r |-> r1, z |-> z1, div0 |-> div0]

\* cg_body, lines 389-394, on Bp, norm_k and the step size a
CgBodyStep(p, count, x, r, precondition, zz, Bp, norm_k, a, div0) ==
    CgBodyEnd(p, count, precondition, zz, norm_k,
              VAdd(x, VScale(a, p)),
              VSub(r, VScale(a, Bp)),
              IF precondition # None
              THEN VMul(Recip(precondition), VSub(r, VScale(a, Bp)))
              ELSE zz,
              div0)

\* cg_body, lines 385-389, on Bp = cg_prod(p)
CgBodyWith(p, count, x, r, precondition, zz, Bp, norm_k) ==
    CgBodyStep(p, count, x, r, precondition, zz, Bp, norm_k,
               FDiv(norm_k, reduce_sum(VMul(Bp, p))),
               IsZero(reduce_sum(VMul(Bp, p))) \/ IsZero(norm_k))

\* cg_body: one iteration; div0 tells whether a denominator was zero
cg_body(p, count, x, r, precondition, zz) ==
    CgBodyWith(p, count, x, r, precondition, zz, cg_prod(p),
               IF precondition # None THEN reduce_sum(VMul(r, zz))
               ELSE reduce_sum(VMul(r, r)))

cg_init(rhs, precondition) ==
    LET \* cg, lines 420-433: the loop variables before the first test
        CgInitWith(n, r, preconditionn) ==
            [p |-> IF preconditionn # None THEN VMul(Recip(preconditionn), r) ELSE r,
             count |-> 0, x |-> zeros(n), r |-> r,
             z |-> IF preconditionn # None THEN VMul(Recip(preconditionn), r) ELSE None,
             maxit |-> 2 * n]
    IN  CgInitWith(Len(rhs), VSub(rhs, cg_prod(zeros(Len(rhs)))), precondition)

(***************************************************************************)
(* line search                                                             *)
(***************************************************************************)
\* sys.float_info.max, (2^53 - 1) * 2^971, held in a float32 tensor: inf
FloatMax == convert_to_tensor(<<1, <<4095, 4095, 4095, 4095, 31>>, 971, 0>>)

\* the first step size tried (line 261) and the iteration cap step passes (118)
InitStepSize == 5
LsMaxIt == 20

\* converge_cond: TRUE while the search goes on.  step_size * t is a product
\* of Python numbers, made a float32 tensor by tf.less
converge_cond(obj_prev, obj_s, step, tt, maxit) ==
    tt < maxit /\ FLess(FSub(obj_prev, obj_s), convert_to_tensor(PyMul(step, PyNum(tt, 0))))

\* lines 222-226 with opt_step taken from every candidate
SearchStepKeepsLast(obj, minobj, step, tt, optstep) ==
    [obj_search |-> obj,
     opt_step |-> step,
     min_obj |-> IF FGreater(minobj, obj) THEN obj ELSE minobj,
     step_size |-> PyMul(tau, step),
     t |-> tt + 1]

\* search_step, lines 222-226, on the candidate's objective: step_size,
\* opt_step and tau are Python floats, line 225 is a product of two of them
SearchStepOn(obj, minobj, step, tt, optstep) ==
    [obj_search |-> obj,
     opt_step |-> IF FGreater(minobj, obj) THEN step ELSE optstep,
     min_obj |-> IF FGreater(minobj, obj) THEN obj ELSE minobj,
     step_size |-> PyMul(tau, step),
     t |-> tt + 1]

\* search_step, lines 204-219: the objective at alpha_search
ObjectiveAt(alpha_search) == Objective(alpha_search, f_search(alpha_search))

\* search_step: evaluate the candidate alpha + step_size * delta_alpha, the
\* Python float step_size made a float32 tensor by the product
search_step(obj_s, minobj, al, dal, step, tt, optstep) ==
    SearchStepOn(ObjectiveAt(VAdd(al, VScale(convert_to_tensor(step), dal))),
                 minobj, step, tt, optstep)

\* line 127 without its test of delta
StepAlphaAlways(dlt, al, dal, step) == VAdd(al, VScale(convert_to_tensor(step), dal))

\* step, line 127: the update is taken only when delta > 1e-5
step_alpha(dlt, al, dal, step) ==
    IF FGreater(dlt, Tol) THEN VAdd(al, VScale(convert_to_tensor(step), dal)) ELSE al

\* the 1e-9 that replaces a NaN entry of alpha (line 128)
NanFloorValue == FDiv(Num(1), Num(1000000000))
\* line 127 without line 128
NanKept(al) == al

\* step, line 128: tf.where(tf.is_nan(alpha), 1e-9 * ones, alpha)
NanFloor(al) ==
    Tensor([i \in 1..Len(al) |-> IF IsNaN(al[i]) THEN NanFloorValue ELSE al[i]])

\* conv without its test of the iteration count
ConvIgnoresMaxIt(maxit, i, dlt) == FGreater(dlt, Tol)

\* conv: TRUE while the Newton loop goes on
conv(maxit, i, dlt) == i < maxit /\ FGreater(dlt, Tol)

(***************************************************************************)
(* SpecKron: kron_mvp and the dense product on drawn factor lists          *)
(***************************************************************************)
MaxFactor == 3

\* the factor lists drawn: D = 2 or 3 square factors of sizes 1..MaxFactor
FactorSizes == UNION {[1..D -> 1..MaxFactor] : D \in {2, 3}}

FactorList(sizes, kind) ==
    LET Identity(n) == [i \in 1..n |-> [j \in 1..n |-> IF i = j THEN One ELSE Zero]]
        \* a square matrix without symmetry, different for each factor; the entries
        \* are small, so that every sum is exact
        Generic(n, k) == [i \in 1..n |-> [j \in 1..n |-> Num(((i - 1) * n + j + k) % 4)]]
    IN  [k \in 1..Len(sizes) |->
            IF kind = "identity" THEN Identity(sizes[k]) ELSE Generic(sizes[k], k)]

GridSize(sizes) ==
    LET RECURSIVE ProdUpTo(_, _)
        ProdUpTo(sizess, k) == IF k = 0 THEN 1 ELSE ProdUpTo(sizess, k - 1) * sizess[k]
    IN  ProdUpTo(sizes, Len(sizes))

TestVector(n, kind) ==
    [i \in 1..n |-> IF kind = "iota" THEN Num(i % 5) ELSE Num(((i * i) % 5) - 2)]

KronIdle ==
    /\ kr_pc = "idle"
    /\ kr_Ks = <<>>
    /\ kr_v = <<>>
    /\ kr_out = [ok |-> TRUE, err |-> "no", rank |-> 1, val |-> <<>>]
    /\ kr_dense = <<>>

KronInit ==
    /\ kr_pc = "input"
    /\ \E sizes \in FactorSizes, kk \in {"identity", "generic"}, vk \in {"iota", "mixed"} :
          /\ kr_Ks = FactorList(sizes, kk)
          /\ kr_v = TestVector(GridSize(sizes), vk)
    /\ kr_out = [ok |-> TRUE, err |-> "no", rank |-> 1, val |-> <<>>]
    /\ kr_dense = <<>>
    /\ SolverIdle
    /\ ThinIdle

\* apply kron_mvp(Ks, v) and the dense kron_list(Ks) . v to the same input
KronApply ==
    /\ kr_pc = "input"
    /\ kr_out' = kron_mvp(kr_Ks, kr_v)
    /\ kr_dense' = MatVec(kron_list(kr_Ks), kr_v)
    /\ kr_pc' = "done"
    /\ UNCHANGED <<kr_Ks, kr_v, solverVars, thinVars>>

SpecKron == KronInit /\ [][KronApply]_vars

\* C1: for D = 2 or 3 square factors and any v, kron_mvp(Ks, v) returns the
\* vector kron_list(Ks) . v
C1_KronMvpEqualsDense ==
    kr_pc = "done" => (kr_out.ok /\ kr_out.val = kr_dense)

\* kron_mvp agrees with the dense product when the factors are two of equal
\* size (or all factors but one are 1 x 1); for N = 1 it returns the single
\* entry as a 0-d scalar
KronShapeSupported(Kfac) ==
    \/ Len(Kfac) = 2 /\ (Rows(Kfac[1]) = Rows(Kfac[2]) \/ Rows(Kfac[1]) = 1 \/ Rows(Kfac[2]) = 1)
    \/ Len(Kfac) = 3 /\ Rows(Kfac[1]) = 1 /\ Rows(Kfac[2]) = 1
KronMvpEqualsDenseWhenSupported ==
    (kr_pc = "done" /\ KronShapeSupported(kr_Ks)) =>
        (kr_out.ok /\ kr_out.val = squeeze(kr_dense))

(***************************************************************************)
(* The drawn constructor arguments                                         *)
(***************************************************************************)
MaxIt == 3

\* the number of grid points that share one value of axis i and of the axes
\* before it
RECURSIVE StrideAfter(_, _)
StrideAfter(axes, i) ==
    IF i >= Len(axes) THEN 1 ELSE Len(axes[i + 1]) * StrideAfter(axes, i + 1)

\* X: the Cartesian grid of the axes, the first axis slowest
GridX(axes) ==
    [r \in 1..(Len(axes[1]) * StrideAfter(axes, 1)) |->
        [i \in 1..Len(axes) |-> axes[i][(((r - 1) \div StrideAfter(axes, i)) % Len(axes[i])) + 1]]]

\* a grid of two points, a grid of one point and a grid with three axes
AxesDrawn == { << <<0, 1>>, <<0>> >>, << <<0>>, <<0>> >>, << <<0, 1>>, <<0, 1>>, <<0>> >> }
KernelsDrawn == { [var |-> 1, cov |-> 0], [var |-> 2, cov |-> 1] }
LikelihoodsDrawn == {"gauss", "flat", "convex"}
MuDrawn(n) == {[i \in 1..n |-> Num(0)], [i \in 1..n |-> Num(1)]}
YDrawn(n) == {[i \in 1..n |-> Num(IF i = 1 THEN 1 ELSE 0)],
              [i \in 1..n |-> Num(IF i = 1 THEN -1 ELSE 1)],
              [i \in 1..n |-> IF i = 1 THEN Round(10001, 30) ELSE Round(-5001, 30)],
              [i \in 1..n |-> IF i = 1 THEN FDiv(Num(1), Num(256)) ELSE Zero]}
KDiagDrawn(n) == {None, [i \in 1..n |-> Num(1)], [i \in 1..n |-> Num(-2)]}
MaskDrawn(n) == {None, [i \in 1..n |-> i = 1]}

\* the arguments of __init__ and of run: every combination of the values
\* above with tau = 0.5 (the default of __init__); and on the grid of two
\* points also tau = 0.3, whose powers binary64 does not hold exactly, and a
\* prior mean of 2^64, with which the first psi is +inf or NaN
ArgsDrawn ==
    \E axes \in AxesDrawn :
        /\ X = GridX(axes)
        /\ y \in YDrawn(Len(X))
        /\ kernel \in KernelsDrawn
        /\ likelihood \in LikelihoodsDrawn
        /\ \/ /\ mu \in MuDrawn(Len(X))
              /\ k_diag \in KDiagDrawn(Len(X))
              /\ mask \in MaskDrawn(Len(X))
              /\ tau = PyNum(1, -1)
              /\ max_it \in 0..MaxIt
           \/ /\ Len(X) = 2
              /\ mu \in MuDrawn(Len(X))
              /\ k_diag \in KDiagDrawn(Len(X))
              /\ mask = None
              /\ tau = <<1, <<819, 819, 819, 819, 19>>, -54, 0>>
              /\ max_it = MaxIt
           \/ /\ Len(X) = 2
              /\ mu = [i \in 1..Len(X) |-> Round(1, 64)]
              /\ k_diag = None
              /\ mask = None
              /\ tau = PyNum(1, -1)
              /\ max_it = MaxIt

LocalsIdle ==
    /\ it = 0 /\ prev = Zero /\ delta = Zero
    /\ psi = Zero /\ b = None /\ delta_alpha = None /\ z = None /\ ls = None
    /\ cg_p = None /\ cg_count = 0 /\ cg_x = None /\ cg_r = None /\ cg_z = None
    /\ cg_max_it = 0
    /\ obj_search = Zero /\ min_obj = Zero /\ t = 0
    /\ step_size = PyNum(0, 0) /\ opt_step = PyNum(0, 0)
    /\ alpha0 = None /\ alpha_upd = None /\ accepted = FALSE /\ ls_hist = <<>>
    /\ cg_div0 = FALSE

(***************************************************************************)
(* SpecCtor: KroneckerSolver.__init__ on drawn arguments                   *)
(***************************************************************************)
CtorInit ==
    /\ KronIdle
    /\ ThinIdle
    /\ ArgsDrawn
    /\ fields = {} /\ Ks = None /\ alpha = None /\ f = None /\ W = None /\ grads = None
    /\ opt_cg_prod = "None"
    /\ pc = "new"
    /\ LocalsIdle

\* __init__: the statements of lines 28-48 up to the first that raises
Construct ==
    /\ pc = "new"
    /\ LET res == RunCtor(CtorBody, 1, fields)
       IN  /\ fields' = res.assigned
           /\ pc' = IF res.raised = "no" THEN "constructed" ELSE res.raised
           /\ Ks' = IF "Ks" \in res.assigned THEN construct_Ks(kernel, X) ELSE None
           /\ alpha' = IF "alpha" \in res.assigned THEN zeros(Len(X)) ELSE None
           /\ W' = IF "W" \in res.assigned THEN zeros(Len(X)) ELSE None
           /\ grads' = IF "grads" \in res.assigned THEN zeros(Len(X)) ELSE None
           /\ f' = IF "f" \in res.assigned THEN mu ELSE None
    /\ UNCHANGED <<opt_cg_prod, it, prev, delta>>
    /\ UNCHANGED <<thinVars, kronVars, argVars, stepVars, cgVars, lsVars, histVars>>

SpecCtor == CtorInit /\ [][Construct]_vars

(***************************************************************************)
(* Spec: a caller constructs a KroneckerSolver and calls run(max_it).  The *)
(* class does not assign X before line 31 reads it and never binds         *)
(* opt.cg_prod: the caller may do either from outside, by an attribute X   *)
(* the instance already has when __init__ runs (a subclass's attribute)    *)
(* and by assigning solver.opt.cg_prod = solver.cg_prod after it.          *)
(***************************************************************************)
Init == CtorInit

\* the caller: the instance has the attribute X before __init__ runs
AssignX ==
    /\ pc = "new"
    /\ "X" \notin fields
    /\ fields' = fields \cup {"X"}
    /\ UNCHANGED <<Ks, alpha, f, W, grads, opt_cg_prod, runVars>>
    /\ UNCHANGED <<thinVars, kronVars, argVars, stepVars, cgVars, lsVars, histVars>>

\* the caller: solver.opt.cg_prod = solver.cg_prod, before run
BindCgProd ==
    /\ pc = "constructed"
    /\ opt_cg_prod = "None"
    /\ opt_cg_prod' = "cg_prod"
    /\ UNCHANGED <<fields, Ks, alpha, f, W, grads, runVars>>
    /\ UNCHANGED <<thinVars, kronVars, argVars, stepVars, cgVars, lsVars, histVars>>

\* run, lines 161-163: delta, prev and it before the loop
RunStart ==
    /\ pc = "constructed"
    /\ delta' = FloatMax
    /\ prev' = FloatMax
    /\ it' = 0
    /\ pc' = "loop"
    /\ UNCHANGED <<thinVars, kronVars, argVars, objVars, stepVars, cgVars, lsVars, histVars>>

\* step, lines 83-109: f, psi, grads, W and the right-hand side b
StepEval ==
    /\ pc = "loop"
    /\ conv(max_it, it, delta)
    /\ alpha0' = alpha
    /\ IF ~kron_mvp(Ks, alpha).ok
       THEN /\ pc' = kron_mvp(Ks, alpha).err
            /\ UNCHANGED <<f, W, grads, psi, b>>
       ELSE \E f1 \in {f_step(alpha)} :
                /\ f' = f1
                /\ psi' = Objective(alpha, f1)
                /\ grads' = grad_func(likelihood, y, f1)
                /\ W' = VNeg(hess_func(likelihood, y, f1))
                /\ b' = VAdd(VMul(VNeg(hess_func(likelihood, y, f1)), VSub(f1, mu)),
                             grad_func(likelihood, y, f1))
                /\ pc' = "solve"
    /\ UNCHANGED <<fields, Ks, alpha, opt_cg_prod, it, prev, delta>>
    /\ UNCHANGED <<delta_alpha, z, ls, alpha_upd, accepted, ls_hist, cg_div0>>
    /\ UNCHANGED <<thinVars, kronVars, argVars, cgVars, lsVars>>

\* step, lines 111-114: opt.cg(b / sqrt(W), precondition = k_diag), and cg's
\* lines 420-433.  Calling cg_prod when it is None raises TypeError.
CgStart ==
    /\ pc = "solve"
    /\ IF opt_cg_prod = "None"
       THEN /\ pc' = "TypeError"
            /\ UNCHANGED <<cgVars, cg_div0>>
       ELSE \E c0 \in {cg_init(VMul(Recip(SqrtW), b), k_diag)} :
                /\ cg_p' = c0.p
                /\ cg_count' = c0.count
                /\ cg_x' = c0.x
                /\ cg_r' = c0.r
                /\ cg_z' = c0.z
                /\ cg_max_it' = c0.maxit
                /\ cg_div0' = FALSE
                /\ pc' = "cg"
    /\ UNCHANGED <<it, prev, delta, alpha0, alpha_upd, accepted, ls_hist>>
    /\ UNCHANGED <<thinVars, kronVars, argVars, objVars, stepVars, lsVars>>

\* one pass of cg's while_loop: cg_body
CgBody ==
    /\ pc = "cg"
    /\ cg_converged(cg_count, cg_r, cg_max_it)
    /\ \E c1 \in {cg_body(cg_p, cg_count, cg_x, cg_r, k_diag, cg_z)} :
           /\ cg_p' = c1.p
           /\ cg_count' = c1.count
           /\ cg_x' = c1.x
           /\ cg_r' = c1.r
           /\ cg_z' = c1.z
           /\ cg_div0' = (cg_div0 \/ c1.div0)
    /\ UNCHANGED <<cg_max_it, alpha0, alpha_upd, accepted, ls_hist>>
    /\ UNCHANGED <<thinVars, kronVars, argVars, objVars, runVars, stepVars, lsVars>>

\* cg returns fin[2]; step line 116; line_search lines 258-265
CgReturn ==
    /\ pc = "cg"
    /\ ~cg_converged(cg_count, cg_r, cg_max_it)
    /\ z' = cg_x
    /\ delta_alpha' = VSub(VMul(SqrtW, cg_x), alpha)
    /\ obj_search' = FloatMax
    /\ min_obj' = psi
    /\ step_size' = PyNum(InitStepSize, 0)
    /\ opt_step' = PyNum(0, 0)
    /\ t' = 1
    /\ ls_hist' = <<>>
    /\ pc' = "ls"
    /\ UNCHANGED <<psi, b, ls, it, prev, delta, alpha0, alpha_upd, accepted, cg_div0>>
    /\ UNCHANGED <<thinVars, kronVars, argVars, objVars, cgVars>>

\* one pass of line_search's while_loop: search_step; kron_mvp at line 204
\* may raise
SearchStep ==
    /\ pc = "ls"
    /\ converge_cond(psi, obj_search, step_size, t, LsMaxIt)
    /\ IF ~kron_mvp_squeezed(Ks, VAdd(alpha, VScale(convert_to_tensor(step_size), delta_alpha))).ok
       THEN /\ pc' = kron_mvp_squeezed(Ks, VAdd(alpha, VScale(convert_to_tensor(step_size), delta_alpha))).err
            /\ UNCHANGED <<lsVars, ls_hist>>
       ELSE \E s1 \in {search_step(obj_search, min_obj, alpha, delta_alpha, step_size, t, opt_step)} :
                /\ obj_search' = s1.obj_search
                /\ min_obj' = s1.min_obj
                /\ opt_step' = s1.opt_step
                /\ step_size' = s1.step_size
                /\ t' = s1.t
                /\ ls_hist' = Append(ls_hist, [step |-> step_size, obj |-> s1.obj_search])
                /\ pc' = pc
    /\ UNCHANGED <<it, prev, delta, alpha0, alpha_upd, accepted, cg_div0>>
    /\ UNCHANGED <<thinVars, kronVars, argVars, objVars, stepVars, cgVars>>

\* line_search returns (res[2], res[-1])
LsReturn ==
    /\ pc = "ls"
    /\ ~converge_cond(psi, obj_search, step_size, t, LsMaxIt)
    /\ ls' = <<min_obj, opt_step>>
    /\ pc' = "update"
    /\ UNCHANGED <<psi, b, delta_alpha, z, it, prev, delta>>
    /\ UNCHANGED <<thinVars, kronVars, argVars, objVars, cgVars, lsVars, histVars>>

\* step, lines 119-131
StepUpdate ==
    /\ pc = "update"
    /\ delta' = FSub(prev, psi)
    /\ prev' = psi
    /\ \E upd \in {step_alpha(FSub(prev, psi), alpha, delta_alpha, ls[2])} :
           /\ alpha_upd' = upd
           /\ alpha' = NanFloor(upd)
    /\ accepted' = FGreater(FSub(prev, psi), Tol)
    /\ it' = it + 1
    /\ pc' = "loop"
    /\ UNCHANGED <<fields, Ks, f, W, grads, opt_cg_prod, alpha0, ls_hist, cg_div0>>
    /\ UNCHANGED <<thinVars, kronVars, argVars, stepVars, cgVars, lsVars>>

\* run, lines 166-169, once conv is False
RunReturn ==
    /\ pc = "loop"
    /\ ~conv(max_it, it, delta)
    /\ IF ~kron_mvp(Ks, alpha).ok
       THEN /\ pc' = kron_mvp(Ks, alpha).err
            /\ UNCHANGED <<f, grads>>
       ELSE /\ f' = f_run(alpha)
            /\ grads' = grad_func(likelihood, y, f_run(alpha))
            /\ pc' = "returned"
    /\ UNCHANGED <<fields, Ks, alpha, W, opt_cg_prod, it, prev, delta>>
    /\ UNCHANGED <<thinVars, kronVars, argVars, stepVars, cgVars, lsVars, histVars>>

Next ==
    \/ AssignX
    \/ Construct
    \/ BindCgProd
    \/ RunStart
    \/ StepEval
    \/ CgStart
    \/ CgBody
    \/ CgReturn
    \/ SearchStep
    \/ LsReturn
    \/ StepUpdate
    \/ RunReturn

Spec == Init /\ [][Next]_vars

\* a <= c on float32: False when either side is NaN
FLessEqual(a, c) == ~IsNaN(a) /\ ~IsNaN(c) /\ ~FGreater(a, c)

(***************************************************************************)
(* The Newton loop of run                                                  *)
(***************************************************************************)
\* the most passes of the loops of cg and line_search, and of the phases
\* of step, that one Newton step can still take from each phase on
PhaseLeft ==
    IF pc = "new" THEN 2 * Len(X) + LsMaxIt + 8 + (IF "X" \in fields THEN 0 ELSE 1)
    ELSE IF pc = "constructed"
         THEN 2 * Len(X) + LsMaxIt + 6 + (IF opt_cg_prod = "None" THEN 1 ELSE 0)
    ELSE IF pc = "loop" THEN 2 * Len(X) + LsMaxIt + 5
    ELSE IF pc = "solve" THEN 2 * Len(X) + LsMaxIt + 4
    ELSE IF pc = "cg" THEN (cg_max_it - cg_count) + LsMaxIt + 3
    ELSE IF pc = "ls" THEN (LsMaxIt - t) + 2
    ELSE IF pc = "update" THEN 1
    ELSE 0

\* a bound on the number of steps run can still take
StepsLeft == (max_it - it) * (2 * Len(X) + LsMaxIt + 6) + PhaseLeft

\* C2: run(max_it) ends after at most max_it Newton steps: every step of
\* run, of cg and of the line search lowers the bound StepsLeft, which is
\* never negative.  The loop goes on to a step exactly while it < max_it and
\* delta > 1e-5 and is otherwise left (run returns, unless kron_mvp raises at
\* line 166), it grows by exactly one per step and never exceeds max_it, and
\* when run has returned either it = max_it or delta <= 1e-5.
C2_RunTerminatesWithinMaxIt ==
    /\ [](it >= 0 /\ it <= max_it /\ StepsLeft >= 0)
    /\ [][StepsLeft' < StepsLeft]_vars
    /\ [][pc = "loop" =>
            IF it < max_it /\ FGreater(delta, Tol)
            THEN pc' \in {"solve", "InvalidArgumentError"} /\ it' = it
            ELSE pc' \in {"returned", "InvalidArgumentError"} /\ it' = it /\ delta' = delta]_vars
    /\ [][it' = IF pc = "update" THEN it + 1 ELSE it]_vars
    /\ [](pc = "returned" => (it = max_it \/ FLessEqual(delta, Tol)))

\* C2, amended: the same, except that when run has returned either
\* it = max_it or delta is not above 1e-5: delta <= 1e-5, or delta is NaN
\* (prev - psi with both infinite), which tf.greater does not find above
\* 1e-5 either.
C2_RunEndsAtMaxItOrDeltaNotAbove ==
    /\ [](it >= 0 /\ it <= max_it /\ StepsLeft >= 0)
    /\ [][StepsLeft' < StepsLeft]_vars
    /\ [][pc = "loop" =>
            IF it < max_it /\ FGreater(delta, Tol)
            THEN pc' \in {"solve", "InvalidArgumentError"} /\ it' = it
            ELSE pc' \in {"returned", "InvalidArgumentError"} /\ it' = it /\ delta' = delta]_vars
    /\ [][it' = IF pc = "update" THEN it + 1 ELSE it]_vars
    /\ [](pc = "returned" => (it = max_it \/ FLessEqual(delta, Tol) \/ IsNaN(delta)))

\* run returned before max_it steps on a NaN delta: the first psi was +inf
\* and prev the largest float
C2_ReturnedOnNaNDelta ==
    /\ pc = "returned"
    /\ it >= 1
    /\ it < max_it
    /\ IsNaN(delta)
    /\ ~FLessEqual(delta, Tol)

\* run returned before max_it steps because delta fell to 1e-5 or below
C2_ReturnedConverged ==
    /\ pc = "returned"
    /\ it >= 2
    /\ it < max_it
    /\ FLessEqual(delta, Tol)

(***************************************************************************)
(* The objective across Newton steps                                       *)
(***************************************************************************)
\* some entry of the vector is NaN
HasNaN(v) == \E i \in 1..Len(v) : IsNaN(v[i])

\* the step before this one took the update of line 127: prev is the psi it
\* started from, psi the one this step has computed
AfterAcceptedStep == pc \in {"solve", "cg", "ls", "update"} /\ it >= 1 /\ accepted

\* C3: the objective psi does not increase across an accepted Newton
\* iteration: when a step took its update alpha + step_size * delta_alpha,
\* the psi computed at the start of the next step is <= the psi computed at
\* the start of the accepting step.
C3_PsiNonIncreasingAcrossAccepted == AfterAcceptedStep => FLessEqual(psi, prev)

\* the same, for the accepted updates in which line 128 replaced no entry
PsiNonIncreasingWithoutNanFloor ==
    (AfterAcceptedStep /\ ~HasNaN(alpha_upd)) => FLessEqual(psi, prev)

\* C4: a Newton step replaces alpha by alpha + step_size * delta_alpha only
\* if delta = prev - psi > 1e-5, prev being the psi of the step before (the
\* largest float before the first step); otherwise it leaves alpha exactly as
\* it was, and in both cases prev, delta and it are updated.
C4_UpdateOnlyOnImprovement ==
    /\ []((pc \in {"loop", "solve", "cg", "ls", "update"} /\ it = 0) => prev = FloatMax)
    /\ [][pc = "update" =>
            /\ delta' = FSub(prev, psi)
            /\ prev' = psi
            /\ it' = it + 1
            /\ IF FGreater(FSub(prev, psi), Tol)
               THEN alpha_upd' = VAdd(alpha, VScale(convert_to_tensor(ls[2]), delta_alpha))
               ELSE alpha' = alpha]_vars
    /\ [][(pc # "new" /\ alpha' # alpha) => (pc = "update" /\ FGreater(FSub(prev, psi), Tol))]_vars

\* a stall: the line search found a step, delta was not above 1e-5 and
\* alpha stayed as it was
C4_Stalled ==
    /\ pc = "loop"
    /\ it >= 2
    /\ ~accepted
    /\ ls[2] # PyNum(0, 0)
    /\ VAdd(alpha0, VScale(convert_to_tensor(ls[2]), delta_alpha)) # alpha0
    /\ alpha = alpha0

\* ---------------------------------------------------------------------
\* line_search's result against the candidates it evaluated (ls_hist holds
\* the step size and the objective of every pass of search_step).  A
\* candidate whose objective is NaN compares below nothing.
Improves(k) == FGreater(psi, ls_hist[k].obj)

FirstAttaining(k) ==
    /\ ls_hist[k].obj = ls[1]
    /\ ls_hist[k].step = ls[2]
    /\ \A j \in 1..(k - 1) : ls_hist[j].obj # ls[1]

\* C5: line_search returns the minimum of psi and the objectives of the
\* candidates it evaluated, with the step size of the first (largest)
\* candidate attaining it; when no candidate is strictly below psi it
\* returns exactly (psi, 0.0).
C5_LineSearchReturnsMinAndStep ==
    pc = "update" =>
        /\ ~FGreater(ls[1], psi)
        /\ \A k \in 1..Len(ls_hist) : ~FGreater(ls[1], ls_hist[k].obj)
        /\ IF \E k \in 1..Len(ls_hist) : Improves(k)
           THEN \E k \in 1..Len(ls_hist) : Improves(k) /\ FirstAttaining(k)
           ELSE ls = <<psi, PyNum(0, 0)>>

\* the minimum is attained by a candidate that is neither the first nor
\* the last one evaluated
C5_MinimumInside ==
    /\ pc = "update"
    /\ \E k \in 2..(Len(ls_hist) - 1) : Improves(k) /\ FirstAttaining(k)

\* no candidate is below psi although candidates were evaluated
C5_NoCandidateBelow ==
    /\ pc = "update"
    /\ Len(ls_hist) >= 2
    /\ \A k \in 1..Len(ls_hist) : ~Improves(k)
    /\ \E k \in 1..Len(ls_hist) : ~IsNaN(ls_hist[k].obj)

\* ---------------------------------------------------------------------
\* the squared norm of cg's residual is above 1e-5
ResidualAbove == FGreater(reduce_sum(VMul(cg_r, cg_r)), Tol)

\* C6: cg runs cg_body at most 2N times (N the length of b); its loop goes
\* on exactly while the squared residual norm is above 1e-5 and the count
\* is below 2N, each pass adding one to the count; with no pass it returns
\* x0 (zeros); what it hands back to step is the final x alone.
C6_CgStopsWithin2N ==
    /\ [](pc = "cg" => (cg_max_it = 2 * Len(b) /\ cg_count >= 0 /\ cg_count <= cg_max_it))
    /\ [][pc = "cg" =>
            IF ResidualAbove /\ cg_count < cg_max_it
            THEN pc' = "cg" /\ cg_count' = cg_count + 1 /\ cg_max_it' = cg_max_it
            ELSE pc' = "ls" /\ z' = cg_x /\ cg_x' = cg_x /\ cg_count' = cg_count]_vars
    /\ [][(pc = "cg" /\ cg_count = 0 /\ pc' = "ls") => z' = zeros(Len(b))]_vars

\* cg has returned after 2N passes with the residual still above 1e-5
C6_StoppedByCount ==
    /\ pc = "ls"
    /\ t = 1
    /\ cg_count = cg_max_it
    /\ cg_count = 2 * Len(b)
    /\ ResidualAbove
    /\ z = cg_x

\* cg has returned x0 without a pass although b is not zero
C6_ZeroPasses ==
    /\ pc = "ls"
    /\ t = 1
    /\ cg_count = 0
    /\ z = zeros(Len(b))
    /\ b # zeros(Len(b))

\* ---------------------------------------------------------------------
\* C7: once a pass of cg_body has divided by a zero <p, Mp> or a zero
\* norm_k, cg ends in the SingularSystem outcome: it neither goes on nor
\* returns, and x, r and p hold no inf or NaN from that division.
C7_SingularSystemOnZeroDenominator == cg_div0 => pc = "SingularSystem"

\* ---------------------------------------------------------------------
\* C8: after every step alpha holds no NaN: the entries that are NaN after
\* the update of line 127 (taken or skipped) become 1e-9, the others stay
\* as computed, so neither the next step nor run's return reads a NaN.
C8_NanFloored ==
    /\ [](~HasNaN(alpha))
    /\ [][pc = "update" =>
            /\ Len(alpha') = Len(alpha_upd')
            /\ \A i \in 1..Len(alpha') :
                   alpha'[i] = IF IsNaN(alpha_upd'[i]) THEN NanFloorValue ELSE alpha_upd'[i]]_vars
    /\ [][alpha_upd' # alpha_upd => pc = "update"]_vars

\* a step has floored one entry of alpha and kept another one
C8_MixedUpdate ==
    /\ pc = "loop"
    /\ it >= 1
    /\ \E i, j \in 1..Len(alpha) :
           /\ IsNaN(alpha_upd[i]) /\ alpha[i] = NanFloorValue
           /\ ~IsNaN(alpha_upd[j]) /\ alpha[j] = alpha_upd[j]

\* ---------------------------------------------------------------------
\* C9: the constructor, given a grid X with D columns and y and mu of X's
\* length, returns normally with every attribute assigned, Ks holding one
\* factor per column of X (the kernel on that column's unique values),
\* alpha all zero and f equal to mu; no statement reads an attribute that
\* is still unassigned.
C9_ConstructorBuildsKs ==
    pc # "new" =>
        /\ pc = "constructed"
        /\ fields = AllFields
        /\ Ks # None
        /\ Len(Ks) = Len(X[1])
        /\ \A i \in 1..Len(X[1]) : Ks[i] = kernel_eval(kernel, Unique(X, i))
        /\ alpha = zeros(Len(X))
        /\ f = mu

\* ---------------------------------------------------------------------
\* mu + K.al, plus al * k_diag when k_diag is configured
WithDiag(al) ==
    IF k_diag = None THEN VAdd(Broadcast(kron_mvp(Ks, al), Len(mu)), mu)
    ELSE VAdd(VAdd(Broadcast(kron_mvp(Ks, al), Len(mu)), mu), VMul(al, k_diag))

\* f of the current step and the objective of every candidate of its line
\* search follow WithDiag
StepsIncludeDiag ==
    /\ pc \in {"solve", "cg", "ls", "update"} => f = WithDiag(alpha)
    /\ pc \in {"ls", "update"} =>
           \A k \in 1..Len(ls_hist) :
               ls_hist[k].obj =
                   Objective(VAdd(alpha, VScale(convert_to_tensor(ls_hist[k].step), delta_alpha)),
                             WithDiag(VAdd(alpha, VScale(convert_to_tensor(ls_hist[k].step), delta_alpha))))

\* C10: every f computed from alpha is mu + K.alpha + alpha * k_diag when
\* k_diag is configured (mu + K.alpha otherwise): in each step, in each
\* candidate of the line search, and in the f that run leaves on the solver.
C10_FIncludesDiagEverywhere ==
    /\ StepsIncludeDiag
    /\ pc = "returned" => f = WithDiag(alpha)

\* ---------------------------------------------------------------------
\* p + sqrt(W) * (K (sqrt(W) * p)), with k_diag * (sqrt(W) * p) added to the
\* inner product when k_diag is configured
SolverOperator(p) ==
    IF k_diag = None
    THEN VAdd(p, VMul(SqrtW, Broadcast(kron_mvp(Ks, VMul(SqrtW, p)), Len(p))))
    ELSE VAdd(p, VMul(SqrtW, VAdd(Broadcast(kron_mvp(Ks, VMul(SqrtW, p)), Len(p)),
                                  VMul(k_diag, VMul(SqrtW, p)))))

\* C11: the product function cg calls in a step is the solver's cg_prod on
\* the W of that step, and the step's call to cg never finds the product
\* function undefined (None).
C11_CgAppliesSolverOperator ==
    /\ pc # "TypeError"
    /\ (pc = "cg" /\ cg_count = 0) =>
           cg_r = VSub(VMul(Recip(SqrtW), b), SolverOperator(zeros(Len(b))))

\* ---------------------------------------------------------------------
\* the objective condition as converge_cond reads it after the k-th
\* candidate: psi - obj_k < (step size of candidate k+1) * (k+1)
CondAfter(k) ==
    FLess(FSub(psi, ls_hist[k].obj),
          convert_to_tensor(PyMul(PyMul(tau, ls_hist[k].step), PyNum(k + 1, 0))))

\* the candidates of a finished line search follow 5.0, 5.0 tau, ...: the
\* first step size is 5.0 and each further one is tau times the one before;
\* and the search stopped at the first candidate after which the condition
\* failed
CandidatesInOrder ==
    /\ Len(ls_hist) >= 1 => ls_hist[1].step = PyNum(InitStepSize, 0)
    /\ \A k \in 1..(Len(ls_hist) - 1) :
           /\ ls_hist[k + 1].step = PyMul(tau, ls_hist[k].step)
           /\ CondAfter(k)

\* C12: a line search evaluates the step sizes 5.0, 5.0 tau, 5.0 tau^2, ...
\* in that order, at least one and at most 20 of them, and exactly 20 when
\* the objective condition holds after every candidate.
C12_LineSearchTriesTwenty ==
    pc = "update" =>
        /\ CandidatesInOrder
        /\ Len(ls_hist) >= 1
        /\ Len(ls_hist) <= LsMaxIt
        /\ (\A k \in 1..Len(ls_hist) : CondAfter(k)) => Len(ls_hist) = LsMaxIt

\* what the loop does: t runs from 1 while t < 20, so at most 19 candidates;
\* and none at all when psi - (largest float) is NaN (psi is +inf or NaN),
\* which tf.less finds below nothing
LineSearchTriesNineteen ==
    pc = "update" =>
        /\ CandidatesInOrder
        /\ Len(ls_hist) = 0 <=> IsNaN(FSub(psi, FloatMax))
        /\ Len(ls_hist) <= LsMaxIt - 1
        /\ (Len(ls_hist) >= 1 /\ \A k \in 1..Len(ls_hist) : CondAfter(k))
               => Len(ls_hist) = LsMaxIt - 1

\* ---------------------------------------------------------------------
AllFinite(v) == \A i \in 1..Len(v) : IsFinite(v[i])

\* C13: a step whose line search returned the step size 0.0 leaves alpha as
\* it was, whatever delta_alpha cg produced (inf and NaN entries included).
C13_ZeroStepKeepsAlpha ==
    [][(pc = "update" /\ ls[2] = PyNum(0, 0)) => alpha' = alpha]_vars

\* the same for a delta_alpha without inf or NaN entries
ZeroStepKeepsAlphaWhenFinite ==
    [][(pc = "update" /\ ls[2] = PyNum(0, 0) /\ AllFinite(delta_alpha)) => alpha' = alpha]_vars

(***************************************************************************)
(* ThinnedEventsSampler (src/thinnedEvents_eager.py).  x_K, x_M are        *)
(* matrices with one row per event (a grid point), y_K, y_M have one       *)
(* one-entry row per event; x_K_ndim is the number of axes of x_K.  These  *)
(* are the attributes of the instance; loop_vars holds the values the      *)
(* running tf.while_loop of run carries from pass to pass, which run       *)
(* assigns to the attributes when the loop has returned (lines 171, 175).  *)
(* The random draws of a pass (the Bernoulli sample, the candidates of     *)
(* sample_point, y_new, the row c and the outcome of                       *)
(* tf.less(tf.log(a), ratio) for the uniform a) are drawn from small sets. *)
(* The kernel is taken to be positive definite, so that conditional        *)
(* (lines 83-91) returns whenever its shapes fit.                          *)
(***************************************************************************)
\* np.arange(-5, 5.1, 0.5) holds GridN values (lines 32-33), and the
\* number of passes of thinned_step (line 156)
GridN == 21
ThinnedSteps == 10

\* the calls of run and update a caller makes, and the candidates drawn
\* for one call of sample_point
MaxCalls == 2
MaxDraws == 2

\* np.arange(-5, 5.1, 0.5)[k - 1] = -5 + 0.5 (k - 1)
GridAxis == [k \in 1..GridN |-> Round(k - 11, -1)]

\* gen_data2d, lines 34-38: row r of self.S (counted from 0) is
\* (x[r mod 21], y[r div 21])
GridS(r) == <<GridAxis[(r % GridN) + 1], GridAxis[(r \div GridN) + 1]>>

\* tf.slice(m, [begin, 0], [size, width]); size -1 takes the rest
slice(m, begin, size) ==
    IF size = -1 THEN SubSeq(m, begin + 1, Len(m))
    ELSE SubSeq(m, begin + 1, begin + size)

\* sample_point, lines 67-81, on the grid points cands that
\* np.random.choice (or, for dist = "Gaussian", the grid point nearest to
\* the normal draw) yields in turn: the first of them that is no row of X,
\* as a matrix of one row; no row while every candidate so far is a row of
\* X (the loop draws again)
RECURSIVE sample_point(_, _)
sample_point(Xs, cands) ==
    IF cands = <<>> THEN <<>>
    ELSE IF \E k \in 1..Len(Xs) : Xs[k] = Head(cands)
         THEN sample_point(Xs, Tail(cands))
    ELSE <<Head(cands)>>

\* the grid points drawn as candidates: the second row of self.S, the
\* middle row (0, 0) and the last row (5, 5)
PointsDrawn == {GridS(1), GridS((GridN * GridN - 1) \div 2), GridS(GridN * GridN - 1)}

\* the candidates drawn for one call of sample_point, in turn
CandsDrawn == UNION {[1..n -> PointsDrawn] : n \in 1..MaxDraws}

\* the value drawn for y_new (line 110, 144) and for a row of G_k: one for
\* each point, so that the rows of y_M differ as those of x_M do
ValueDrawn(pt) == FAdd(pt[1], FMul(Num(GridN), pt[2]))

\* what a step of the chain hands back, and a step that raises
Handed(xM, yM) == [err |-> "no", x_M |-> xM, y_M |-> yM]

\* add_event: append the new rows
add_event(x_new, y_new, xM, yM) == Handed(xM \o x_new, yM \o y_new)

\* erase_event with row 0 taken whatever c is
EraseFirstRow(xM, yM, c) == Handed(slice(xM, 1, -1), slice(yM, 1, -1))

\* erase_event: the rows before c and the rows after c
erase_event(xM, yM, c) ==
    Handed(slice(xM, 0, c) \o slice(xM, c + 1, -1),
           slice(yM, 0, c) \o slice(yM, c + 1, -1))

\* tf.concat([x_K, x_M], 0) raises unless x_K has the two axes of x_M
\* (lines 108, 142), and conditional's tf.matmul (line 89) unless
\* concat([x_K, x_M]) and concat([y_K, y_M]) have the same number of rows
ConditionalRaises(xK, yK, xM, yM, ndim) ==
    ndim # 2 \/ Len(xK) + Len(xM) # Len(yK) + Len(yM)

\* insert_event, lines 107-116, on its draws
insert_event(xK, yK, xM, yM, ndim, d) ==
    IF ConditionalRaises(xK, yK, xM, yM, ndim)
    THEN [err |-> "InvalidArgumentError", x_M |-> xM, y_M |-> yM]
    ELSE IF d.accept THEN add_event(<<d.pt>>, << <<d.v>> >>, xM, yM)
    ELSE Handed(xM, yM)

\* delete_util, lines 120-128, on its draws: tf.slice(y_M, [c, 0], [1, 1])
\* at line 124 raises when y_M has no row c
delete_util(xM, yM, d) ==
    IF d.c >= Len(yM) THEN [err |-> "InvalidArgumentError", x_M |-> xM, y_M |-> yM]
    ELSE IF d.accept THEN erase_event(xM, yM, d.c)
    ELSE Handed(xM, yM)

\* delete_event: nothing to delete when x_M has no rows
delete_event(xK, yK, xM, yM, d) ==
    IF Len(xM) = 0 THEN Handed(xM, yM) ELSE delete_util(xM, yM, d)

\* thinned_step, lines 160-162: the loop variables it returns
thinned_step(xK, yK, xM, yM, i, ndim, d) ==
    [x_K |-> xK, y_K |-> yK, i |-> i + 1,
     res |-> IF d.bern = 1 THEN insert_event(xK, yK, xM, yM, ndim, d)
             ELSE delete_event(xK, yK, xM, yM, d)]

\* sample_step, lines 149-150: row i replaced by the new row
ReplaceRow(m, i, new) == slice(m, 0, i) \o (new \o slice(m, i + 1, -1))

\* sample_step, lines 142-152: the loop variables it returns; y_M[i] at
\* line 145 raises when y_M has no row i
sample_step(xK, yK, xM, yM, i, ndim, d) ==
    [x_K |-> xK, y_K |-> yK, i |-> i + 1,
     res |-> IF ConditionalRaises(xK, yK, xM, yM, ndim) \/ i >= Len(yM)
             THEN [err |-> "InvalidArgumentError", x_M |-> xM, y_M |-> yM]
             ELSE IF d.accept
                  THEN Handed(ReplaceRow(xM, i, <<d.pt>>), ReplaceRow(yM, i, << <<d.v>> >>))
             ELSE Handed(xM, yM)]

thinned_cond(i) == i < ThinnedSteps
sample_cond(xM, i) == i < Len(xM)

\* the draws of a step that reaches none
NoDraw == [bern |-> 0, pt |-> GridS(0), v |-> Zero, c |-> 0, accept |-> FALSE]

\* the draws of insert_event and of sample_step when sample_point is handed
\* one of the sequences of candidates in drawn: the point it returns, y_new
\* and the acceptance.  None is made when tf.concat raises first, and the
\* pass is not over while sample_point has not returned.
PointDraws(xK, xM, ndim, bern, drawn) ==
    IF ndim # 2 THEN {[NoDraw EXCEPT !.bern = bern]}
    ELSE {[bern |-> bern, pt |-> x_new[1], v |-> ValueDrawn(x_new[1]),
           c |-> 0, accept |-> a] :
             x_new \in {sample_point(xK \o xM, cands) : cands \in drawn} \ {<<>>},
             a \in BOOLEAN}

\* the draws of delete_event: the row c and the acceptance
DeleteDraws(xM) ==
    IF Len(xM) = 0 THEN {NoDraw}
    ELSE {[NoDraw EXCEPT !.c = c, !.accept = a] : c \in 0..(Len(xM) - 1), a \in BOOLEAN}

\* constructS_k: the accepted events, in the order of self.S.  With exactly
\* one accepted event squeeze() leaves S_k with one axis of two entries.
XKDrawn == { [ndim |-> 2, val |-> <<>>],
             [ndim |-> 1, val |-> GridS(0)],
             [ndim |-> 2, val |-> <<GridS(0), GridS(1)>>] }

\* __init__ with events = None, lines 20-27: x_K, y_K from constructS_k,
\* x_M and y_M without rows
ThinInit ==
    /\ KronIdle
    /\ SolverIdle
    /\ \E k \in XKDrawn :
          /\ x_K = k.val
          /\ x_K_ndim = k.ndim
          /\ y_K = Tensor([r \in 1..(IF k.ndim = 1 THEN 1 ELSE Len(k.val)) |->
                               <<ValueDrawn(GridS(r - 1))>>])
    /\ x_M = <<>> /\ y_M = <<>>
    /\ loop_vars = NoLoop
    /\ th_pc = "constructed" /\ th_i = 0 /\ th_it = 0 /\ th_calls = 0
    /\ th_prev = <<<<>>, <<>>>> /\ th_op = NoStep

\* the sampler is constructed, or its last run has returned or raised
Callable == th_pc \in {"constructed", "returned", "InvalidArgumentError"}

\* the arguments of update drawn: the x_K, x_M that run returned with new
\* values for y_K and y_M, row for row (ThinnedEventsSolver.step, lines
\* 212-227); an x_K of one row and two axes; and an x_M and y_M with
\* different numbers of rows
UpdateDrawn ==
    {[x_K |-> x_K, ndim |-> x_K_ndim, x_M |-> x_M,
      y_K |-> Tensor([k \in 1..Len(y_K) |-> <<FAdd(y_K[k][1], One)>>]),
      y_M |-> Tensor([k \in 1..Len(y_M) |-> <<FAdd(y_M[k][1], One)>>])]}
    \cup {[x_K |-> <<GridS(0)>>, ndim |-> 2, x_M |-> <<>>,
           y_K |-> << <<One>> >>, y_M |-> <<>>],
          [x_K |-> <<>>, ndim |-> 2, x_M |-> <<GridS(2), GridS(3)>>,
           y_K |-> << <<Zero>> >>, y_M |-> << <<One>> >>]}

\* update, lines 56-59
Update ==
    /\ Callable
    /\ th_calls < MaxCalls
    /\ \E a \in UpdateDrawn :
          /\ x_K' = a.x_K
          /\ x_K_ndim' = a.ndim
          /\ x_M' = a.x_M
          /\ y_K' = a.y_K
          /\ y_M' = a.y_M
    /\ th_calls' = th_calls + 1
    /\ th_prev' = <<<<>>, <<>>>>
    /\ th_op' = [kind |-> "update", c |-> 0, accept |-> TRUE]
    /\ UNCHANGED <<loop_vars, th_pc, th_i, th_it>>
    /\ UNCHANGED <<kronVars, solverVars>>

\* run, lines 170-171: the first while_loop is handed the attributes
ThinRunStart ==
    /\ Callable
    /\ th_calls < MaxCalls
    /\ th_calls' = th_calls + 1
    /\ th_i' = 0
    /\ loop_vars' = [x_K |-> x_K, y_K |-> y_K, x_M |-> x_M, y_M |-> y_M]
    /\ th_pc' = "thinned"
    /\ th_prev' = <<<<>>, <<>>>>
    /\ th_op' = NoStep
    /\ UNCHANGED <<x_K, x_K_ndim, y_K, x_M, y_M, th_it>>
    /\ UNCHANGED <<kronVars, solverVars>>

\* the loop variables after a pass: those the step returned; or the step
\* raised, run ends there and the loop variables are lost.  The attributes
\* are as they were before the loop in both cases.
StepResult(out, kind, d) ==
    /\ IF out.res.err # "no"
       THEN /\ th_pc' = out.res.err
            /\ loop_vars' = NoLoop
            /\ th_i' = 0
            /\ th_it' = 0
            /\ th_prev' = <<<<>>, <<>>>>
            /\ th_op' = NoStep
       ELSE /\ th_pc' = th_pc
            /\ loop_vars' = [x_K |-> out.x_K, y_K |-> out.y_K,
                             x_M |-> out.res.x_M, y_M |-> out.res.y_M]
            /\ th_i' = IF kind = "resample" THEN th_i ELSE out.i
            /\ th_it' = IF kind = "resample" THEN out.i ELSE th_it
            /\ th_prev' = <<loop_vars.x_M, loop_vars.y_M>>
            /\ th_op' = [kind |-> kind, c |-> d.c, accept |-> d.accept]
    /\ UNCHANGED <<x_K, y_K, x_M, y_M>>

\* one pass of the first while_loop of run: thinned_step
ThinnedStep ==
    /\ th_pc = "thinned"
    /\ thinned_cond(th_i)
    /\ \E d \in PointDraws(loop_vars.x_K, loop_vars.x_M, x_K_ndim, 1, CandsDrawn)
                 \cup DeleteDraws(loop_vars.x_M) :
          \E out \in {thinned_step(loop_vars.x_K, loop_vars.y_K, loop_vars.x_M,
                                   loop_vars.y_M, th_i, x_K_ndim, d)} :
             StepResult(out, IF d.bern = 1 THEN "insert" ELSE "delete", d)
    /\ UNCHANGED <<x_K_ndim, th_calls>>
    /\ UNCHANGED <<kronVars, solverVars>>

\* run, lines 171-174: the first loop has returned, its values are
\* assigned to the attributes and the second loop is handed them
ThinnedDone ==
    /\ th_pc = "thinned"
    /\ ~thinned_cond(th_i)
    /\ x_K' = loop_vars.x_K
    /\ y_K' = loop_vars.y_K
    /\ x_M' = loop_vars.x_M
    /\ y_M' = loop_vars.y_M
    /\ th_it' = 0
    /\ th_pc' = "sample"
    /\ th_prev' = <<<<>>, <<>>>>
    /\ th_op' = NoStep
    /\ UNCHANGED <<x_K_ndim, loop_vars, th_i, th_calls>>
    /\ UNCHANGED <<kronVars, solverVars>>

\* one pass of the second while_loop of run: sample_step
SampleStep ==
    /\ th_pc = "sample"
    /\ sample_cond(loop_vars.x_M, th_it)
    /\ \E d \in PointDraws(loop_vars.x_K, loop_vars.x_M, x_K_ndim, 0, CandsDrawn) :
          \E out \in {sample_step(loop_vars.x_K, loop_vars.y_K, loop_vars.x_M,
                                  loop_vars.y_M, th_it, x_K_ndim, d)} :
             StepResult(out, "resample", [d EXCEPT !.c = th_it])
    /\ UNCHANGED <<x_K_ndim, th_calls>>
    /\ UNCHANGED <<kronVars, solverVars>>

\* run, lines 175-180: the second loop has returned, its values are
\* assigned to the attributes and run returns
ThinReturn ==
    /\ th_pc = "sample"
    /\ ~sample_cond(loop_vars.x_M, th_it)
    /\ x_K' = loop_vars.x_K
    /\ y_K' = loop_vars.y_K
    /\ x_M' = loop_vars.x_M
    /\ y_M' = loop_vars.y_M
    /\ loop_vars' = NoLoop
    /\ th_i' = 0
    /\ th_it' = 0
    /\ th_pc' = "returned"
    /\ th_prev' = <<<<>>, <<>>>>
    /\ th_op' = NoStep
    /\ UNCHANGED <<x_K_ndim, th_calls>>
    /\ UNCHANGED <<kronVars, solverVars>>

NextThin ==
    \/ Update
    \/ ThinRunStart
    \/ ThinnedStep
    \/ ThinnedDone
    \/ SampleStep
    \/ ThinReturn

SpecThin == ThinInit /\ [][NextThin]_vars

\* ---------------------------------------------------------------------
\* m without its row c (counted from 0), the other rows in their order
WithoutRow(m, c) ==
    [k \in 1..(Len(m) - 1) |-> IF k <= c THEN m[k] ELSE m[k + 1]] \o <<>>

\* a pass of thinned_step, a pass of sample_step, a call of update, and
\* the assignment at line 171 or 175 when a loop has returned
ThinnedStepTaken == th_pc = "thinned" /\ th_pc' = "thinned" /\ th_i' = th_i + 1
SampleStepTaken == th_pc = "sample" /\ th_pc' = "sample" /\ th_it' = th_it + 1
UpdateTaken == th_calls' = th_calls + 1 /\ th_pc' = th_pc
LoopReturned ==
    \/ th_pc = "thinned" /\ th_pc' = "sample"
    \/ th_pc = "sample" /\ th_pc' = "returned"

\* a loop of run is running
InLoop == th_pc \in {"thinned", "sample"}

\* what the claim says of a pass of thinned_step, of the x_M and y_M the
\* loop carries: one row more in both (accepted insert), row c removed from
\* both with the other rows in their order (accepted delete), or both as
\* they were; a delete on an empty thinned set changes nothing
ThinnedStepEffect ==
    /\ \/ /\ th_op'.kind = "insert" /\ th_op'.accept
          /\ Len(loop_vars'.x_M) = Len(loop_vars.x_M) + 1
          /\ Len(loop_vars'.y_M) = Len(loop_vars.y_M) + 1
          /\ SubSeq(loop_vars'.x_M, 1, Len(loop_vars.x_M)) = loop_vars.x_M
          /\ SubSeq(loop_vars'.y_M, 1, Len(loop_vars.y_M)) = loop_vars.y_M
       \/ /\ th_op'.kind = "delete" /\ th_op'.accept
          /\ Len(loop_vars.x_M) >= 1 /\ th_op'.c \in 0..(Len(loop_vars.x_M) - 1)
          /\ loop_vars'.x_M = WithoutRow(loop_vars.x_M, th_op'.c)
          /\ loop_vars'.y_M = WithoutRow(loop_vars.y_M, th_op'.c)
       \/ /\ ~th_op'.accept
          /\ loop_vars'.x_M = loop_vars.x_M /\ loop_vars'.y_M = loop_vars.y_M
    /\ (th_op'.kind = "delete" /\ Len(loop_vars.x_M) = 0)
           => (loop_vars'.x_M = loop_vars.x_M /\ loop_vars'.y_M = loop_vars.y_M)

C14_DeleteOnEmpty ==
    /\ th_op.kind = "delete"
    /\ th_prev = <<<<>>, <<>>>>
    /\ loop_vars.x_M = <<>> /\ loop_vars.y_M = <<>>
    /\ th_i >= 2

\* update handed in an x_M with more rows than y_M, and a pass of
\* thinned_step has deleted a row of both since
C14_StepAfterUnevenUpdate ==
    /\ th_op.kind = "delete" /\ th_op.accept
    /\ Len(th_prev[1]) = Len(th_prev[2]) + 1
    /\ Len(loop_vars.x_M) = Len(loop_vars.y_M) + 1

\* a pass of run raised after update had handed in uneven rows: the
\* attributes are as update left them
C14_RaisedKeepsAttributes ==
    /\ th_pc = "InvalidArgumentError"
    /\ loop_vars = NoLoop
    /\ Len(x_M) = 2 /\ Len(y_M) = 1

\* update was called on a sampler whose run had raised
C14_UpdateAfterRaise ==
    /\ th_pc = "InvalidArgumentError"
    /\ th_op.kind = "update"
    /\ th_calls = 2

\* an accepted insert has taken the last of the points drawn: the x_M the
\* loop carries holds every one of them
C14_EveryPointTaken ==
    /\ th_pc = "thinned"
    /\ th_op.kind = "insert" /\ th_op.accept
    /\ \A p \in PointsDrawn : \E k \in 1..Len(loop_vars.x_M) : loop_vars.x_M[k] = p

====
